---- MODULE Spec2Model ----
(***************************************************************************)
(* Quest Lifecycle Engine of the 9oormthon-3 backend: answer checking and  *)
(* the write-once score ledger (user_quest_scores), photo-upload           *)
(* auto-scoring, the startup reconciliation job, and random quest          *)
(* selection with type fallback.                                           *)
(*                                                                         *)
(* Every handler is an async function: it runs atomically up to each       *)
(* `await pool.execute(...)` / `await s3Client.send(...)`.  An action of   *)
(* this model is one statement that writes to the store together with the  *)
(* JavaScript around it; a read of the quests table, which no handler      *)
(* modelled here writes, is taken in the same step as the statement next   *)
(* to it.  Requests therefore interleave at every write.                   *)
(***************************************************************************)
EXTENDS Integers, Sequences, FiniteSets, Bags, TLC

\* ------------------------------------------------------------------ bounds
MaxReq == 2        \* requests (check / upload) started in one behaviour
MaxTime == 1       \* CURRENT_TIMESTAMP runs 0..MaxTime (seconds)
MaxSyncRuns == 1   \* process starts, each running the reconciliation job once
MaxListings == 3   \* ListObjectsV2 commands sent in one behaviour
MaxNow == 4        \* Date.now() runs CACHE_TTL..MaxNow
MaxPuts == 1       \* changes made to the objects of the bucket
MaxRows == 4       \* ScoreRecords of the user whose history is read
MaxJobRuns == 2    \* runs of the reconciliation job over one set of uploads

\* --------------------------------------------------------------- constants
Absent == "absent"     \* a request field that was not sent (undefined, falsy)
NULL == "NULL"         \* SQL NULL in a text column
NoQuest == 0           \* quest_id not sent; stored as NULL (quest_id || null)
NoAnswer == <<>>       \* answer not sent, or '' (both are falsy in `!answer`)

\* option_a of a photo-type quest ('사진 미션')
PHOTO_MISSION == "photo mission"

\* The quests table after data load and initializePhotoMissions.
\* Strings are sequences of one-character strings where the code folds case
\* or the store measures their length.
Quests ==
  ( 1 :> [id |-> 1, city |-> "Jeju", town |-> "Aewol", village |-> "Woljeong",
          question |-> "q-cafe", option_a |-> "coast road",
          correct_answer |-> <<"B">>, score |-> 1]
 @@ 2 :> [id |-> 2, city |-> "Jeju", town |-> "Aewol", village |-> "Woljeong",
          question |-> "q-quiet", option_a |-> "crossroad",
          correct_answer |-> <<"C">>, score |-> 1]
 @@ 3 :> [id |-> 3, city |-> "Jeju", town |-> "Aewol", village |-> "Woljeong",
          question |-> "p-woljeong", option_a |-> PHOTO_MISSION,
          correct_answer |-> <<"A">>, score |-> 1]
 @@ 4 :> [id |-> 4, city |-> "Jeju", town |-> "Hallim", village |-> NULL,
          question |-> "p-hallim", option_a |-> PHOTO_MISSION,
          correct_answer |-> <<"A">>, score |-> 1]
 @@ 5 :> [id |-> 5, city |-> "Seogwipo", town |-> "Seongsan", village |-> "Seongsan",
          question |-> "q-seongsan", option_a |-> "sunrise",
          correct_answer |-> <<"C">>, score |-> 1] )

QuestIds == DOMAIN Quests

Users == {"u1", "u2"}
Slots == {1, 2}                         \* requests in flight at once

\* The requests of the ledger specification, which runs check requests,
\* uploads and the reconciliation job against each other.
\* Check requests are <<quest id, answer, user_id>>: quest 3 is a photo-type
\* quest (correct_answer 'A'), quest 1 a question-type quest.
LedgerChecks == {<<3, <<"a">>, "u1">>, <<3, <<"b">>, "u1">>}

\* Upload requests are <<file attached, user_id, quest_id>>
LedgerUploads ==
  {<<TRUE, "u1", 3>>, <<TRUE, "u2", 3>>, <<TRUE, "u1", 1>>}

\* The requests of the upload specification: without a file, without a
\* user_id, without a quest_id, with a quest_id that resolves to no quest (9),
\* for a question-type quest (1) and for photo-type quests (3, 4).
UploadInputs ==
  {<<FALSE, "u1", 3>>, <<TRUE, Absent, 3>>, <<TRUE, "u1", NoQuest>>,
   <<TRUE, "u1", 9>>, <<TRUE, "u1", 1>>, <<TRUE, "u1", 3>>, <<TRUE, "u2", 4>>}

\* The requests of the answer-check specification; 9 resolves to no quest,
\* and the answer "bb" is longer than the user_answer column.
CheckInputs ==
  {<<1, <<"b">>, "u1">>, <<1, <<"B">>, "u1">>, <<1, <<"a">>, "u1">>,
   <<1, <<"b", "b">>, "u1">>,
   <<3, <<"a">>, "u1">>, <<1, <<"b">>, "u2">>,
   <<1, <<"B">>, Absent>>, <<1, NoAnswer, "u1">>, <<9, NoAnswer, "u1">>,
   <<9, <<"B">>, "u1">>, <<9, <<"B">>, Absent>>, <<1, NoAnswer, Absent>>}

\* ---------------------------------------------------------- pure functions
\* String.prototype.toUpperCase on one character
ToUpperChar(c) ==
  CASE c = "a" -> "A" [] c = "b" -> "B" [] c = "c" -> "C" [] c = "d" -> "D"
    [] OTHER -> c

ToUpperCase(s) == [i \in 1..Len(s) |-> ToUpperChar(s[i])]

\* a lookup that finds a quest for every id
QuestRowsAny(id) == IF id \in QuestIds THEN <<Quests[id]>> ELSE <<Quests[1]>>

\* SELECT * FROM quests WHERE id = ?
QuestRows(id) == IF id \in QuestIds THEN <<Quests[id]>> ELSE <<>>

\* a test that takes every quest for a photo mission
IsPhotoQuestAlways(quest) == TRUE

\* const isPhotoQuest = quest.option_a === '사진 미션'
IsPhotoQuest(quest) == quest.option_a = PHOTO_MISSION

\* a comparison that does not fold case
IsCorrectExact(quest, answer) == quest.correct_answer = answer

\* const isCorrect = quest.correct_answer.toUpperCase() === answer.toUpperCase()
IsCorrect(quest, answer) == ToUpperCase(quest.correct_answer) = ToUpperCase(answer)

\* const finalScore = isCorrect ? 1 : 0
FinalScore(isCorrect) == IF isCorrect THEN 1 ELSE 0

\* "no such row" in the snapshots of the ledger
NoRow ==
  [id |-> 0, user_id |-> Absent, quest_id |-> NoQuest, user_answer |-> <<>>,
   correct_answer |-> <<>>, score |-> 0, answered_at |-> 0]

\* ------------------------------------------------------------------- state
VARIABLES
  scores,     \* table user_quest_scores: rows in insertion order
  uploads,    \* table user_upload_history: a bag of rows
  now,        \* CURRENT_TIMESTAMP of the store
  sqlStrict,  \* sql_mode of the store: TRUE = STRICT_TRANS_TABLES
  S3_BUCKET_NAME, \* process.env.AWS_S3_BUCKET_NAME || ''
  req,        \* per slot: a request in flight, or its response being sent
  reqCount,   \* requests started so far
  first,      \* history: per (user, quest) the first insert that reached the store
  sync,       \* the reconciliation job of the startup sequence
  rq,         \* GET /api/quests/random: the request being answered
  seongsanImageCache, \* let seongsanImageCache = null
  cacheTimestamp,     \* let cacheTimestamp = 0
  dateNow,    \* Date.now()
  bucket,     \* the keys of the objects in the S3 bucket
  call,       \* per caller: a call of getSeongsanImageList
  listings,   \* ListObjectsV2 commands sent so far
  puts,       \* changes made to the bucket so far
  AWS_REGION, \* process.env.AWS_REGION || 'ap-northeast-2'
  hq          \* GET /api/users/:user_id/quests: the request being answered

\* the state of the score ledger and its writers
ledgerVars ==
  <<scores, uploads, now, sqlStrict, S3_BUCKET_NAME, req, reqCount, first, sync>>

\* the state of the default-image list and its cache
cacheVars ==
  <<seongsanImageCache, cacheTimestamp, dateNow, bucket, call, listings, puts>>

\* the state of the history listing
historyVars == <<AWS_REGION, hq>>

\* the state the ledger's handlers leave alone
otherVars == <<rq, cacheVars, historyVars>>

vars == <<ledgerVars, otherVars>>

\* ------------------------------------------------------------- the store
\* user_answer CHAR(1): does the value fit the column
FitsChar1(v) == Len(v) <= 1

\* what a non-strict store keeps of a value written to a CHAR(1) column
StoreChar1(v) == IF FitsChar1(v) THEN v ELSE SubSeq(v, 1, 1)

\* CURRENT_TIMESTAMP when a statement runs: the time of the statement before
\* it, or later (DEFAULT CURRENT_TIMESTAMP of answered_at and uploaded_at)
Clock == {t \in {now, now + 1} : t <= MaxTime}

\* rows of user_quest_scores with this (user_id, quest_id)
ScoreRowsOf(table, u, q) ==
  {i \in 1..Len(table) : table[i].user_id = u /\ table[i].quest_id = q}

\* a table without the unique key: every insert adds a row
InsertAlways(table, row) == Append(table, [row EXCEPT !.id = Len(table) + 1])

\* ON DUPLICATE KEY UPDATE that takes the new values
OnDuplicateKeyOverwrite(table, row) ==
  IF ScoreRowsOf(table, row.user_id, row.quest_id) # {}
  THEN LET i == CHOOSE i \in ScoreRowsOf(table, row.user_id, row.quest_id) : TRUE
       IN [table EXCEPT ![i] = [row EXCEPT !.id = i]]
  ELSE Append(table, [row EXCEPT !.id = Len(table) + 1])

\* ON DUPLICATE KEY UPDATE that takes the new answered_at only
OnDuplicateKeyTouch(table, row) ==
  IF ScoreRowsOf(table, row.user_id, row.quest_id) # {}
  THEN LET i == CHOOSE i \in ScoreRowsOf(table, row.user_id, row.quest_id) : TRUE
       IN [table EXCEPT ![i].answered_at = row.answered_at]
  ELSE Append(table, [row EXCEPT !.id = Len(table) + 1])

\* UNIQUE KEY unique_user_quest (user_id, quest_id) with
\* ON DUPLICATE KEY UPDATE user_id = user_id: a duplicate changes nothing
OnDuplicateKey(table, row) ==
  IF ScoreRowsOf(table, row.user_id, row.quest_id) # {}
  THEN table
  ELSE Append(table, [row EXCEPT !.id = Len(table) + 1])

\* INSERT INTO user_quest_scores (...) VALUES (...) ON DUPLICATE KEY UPDATE ...
\* ok = FALSE: the statement raised (ER_DATA_TOO_LONG under strict sql_mode)
InsertScore(table, row, strict) ==
  IF strict /\ ~FitsChar1(row.user_answer)
  THEN [ok |-> FALSE, table |-> table]
  ELSE [ok |-> TRUE,
        table |-> OnDuplicateKey(table,
                    [row EXCEPT !.user_answer = StoreChar1(@)])]

\* the row of a pair, or NoRow
ScoreRow(table, u, q) ==
  IF ScoreRowsOf(table, u, q) = {} THEN NoRow
  ELSE table[CHOOSE i \in ScoreRowsOf(table, u, q) : TRUE]

\* ------------------------------------------------------------ request slots
\* A slot holds one request: its inputs, its position (pc) and its locals.
\* With pc = "done" the slot shows the response as it is sent, and Return
\* ends the handler.  ins tells what became of the ScoreRecord insert of the
\* request and recAfter is the row of its pair when the response was sent.
\* The prev fields of a check are the response to the check of the same
\* (user_id, quest_id) that was being sent when this one entered.  put tells
\* what became of the PutObject of an upload.
IdleReq ==
  [kind |-> "none", pc |-> "idle", id |-> NoQuest, answer |-> NoAnswer,
   user_id |-> Absent, file |-> FALSE, status |-> 0, correct |-> FALSE,
   score |-> 0, userAnswer |-> NoAnswer, ins |-> "none", recAfter |-> NoRow,
   prevStatus |-> 0, prevAnswer |-> NoAnswer, prevScore |-> 0,
   prevRec |-> NoRow, put |-> "none"]

\* a new request takes the first idle slot
Free(s) == req[s].pc = "idle" /\ \A t \in Slots : t < s => req[t].pc # "idle"

\* no response is being sent: a response is sent and its handler returns
\* before any other step is taken
Quiet == \A s \in Slots : req[s].pc # "done"

\* res.status(code).json(...): the response as sent
Response(r, code, table) ==
  [r EXCEPT !.pc = "done", !.status = code,
            !.recAfter = ScoreRow(table, r.user_id, r.id)]

\* the handler returns after its response
Return(s) ==
  /\ req[s].pc = "done"
  /\ req' = [req EXCEPT ![s] = IdleReq]
  /\ UNCHANGED <<scores, uploads, now, sqlStrict, S3_BUCKET_NAME, reqCount,
                 first, sync>>
  /\ UNCHANGED otherVars

\* history: remember the first insert of a pair that reached the store
NoteFirst(row, by) ==
  IF first[row.user_id][row.quest_id].by = "none"
  THEN [first EXCEPT ![row.user_id][row.quest_id] = [by |-> by, row |-> row]]
  ELSE first

\* ------------------------------------------------- POST /api/quests/:id/check
\* the ScoreRecord the check handler writes
CheckRow(r, quest, t) ==
  [id |-> 0, user_id |-> r.user_id, quest_id |-> r.id,
   user_answer |-> ToUpperCase(r.answer),
   correct_answer |-> quest.correct_answer,
   score |-> r.score, answered_at |-> t]

\* a catch (scoreError) that lets the error through to the outer catch
CheckScoreErrorThrows(r) == [r EXCEPT !.pc = "done", !.status = 500]

\* catch (scoreError): logged only, the handler goes on to its response
CheckScoreError(r) == r

\* the responses being sent to a check of the same (user_id, quest_id)
Earlier(id, user_id) ==
  {t \in Slots : /\ req[t].pc = "done"
                 /\ req[t].kind = "check"
                 /\ req[t].id = id
                 /\ req[t].user_id = user_id}

\* the request as it enters the check handler
CheckEntry(id, answer, user_id) ==
  LET r == [IdleReq EXCEPT !.kind = "check", !.id = id, !.answer = answer,
                           !.user_id = user_id]
  IN IF Earlier(id, user_id) = {} THEN r
     ELSE LET p == req[CHOOSE t \in Earlier(id, user_id) : TRUE]
          IN [r EXCEPT !.prevStatus = p.status, !.prevAnswer = p.answer,
                       !.prevScore = p.score, !.prevRec = p.recAfter]

\* The handler: validation, `SELECT * FROM quests WHERE id = ?` (dbUp: the
\* store answers it), the comparison, the INSERT of the ScoreRecord when a
\* user_id was sent (dbUp2: the store answers it) and the response.  The
\* quests table does not change, so the lookup is taken in the same step as
\* the INSERT.
Check(s, id, answer, user_id) ==
  /\ Free(s)
  /\ Quiet \/ Earlier(id, user_id) # {}
  /\ reqCount < MaxReq
  /\ reqCount' = reqCount + 1
  /\ \E dbUp \in BOOLEAN, dbUp2 \in BOOLEAN, t \in Clock :
       LET r0 == CheckEntry(id, answer, user_id)
       IN IF Len(answer) = 0 \/ ~dbUp \/ Len(QuestRows(id)) = 0
          THEN /\ req' = [req EXCEPT ![s] =
                    IF Len(answer) = 0 THEN Response(r0, 400, scores)
                    ELSE IF ~dbUp THEN Response(r0, 503, scores)
                    ELSE Response(r0, 404, scores)]
               /\ UNCHANGED <<scores, first, now>>
          ELSE LET quest == QuestRows(id)[1]
                   isCorrect == IsCorrect(quest, answer)
                   r1 == [r0 EXCEPT !.correct = isCorrect,
                                    !.score = FinalScore(isCorrect),
                                    !.userAnswer = ToUpperCase(answer)]
                   row == CheckRow(r1, quest, t)
                   res == IF dbUp2 THEN InsertScore(scores, row, sqlStrict)
                          ELSE [ok |-> FALSE, table |-> scores]
                   r2 == IF res.ok THEN [r1 EXCEPT !.ins = "reached"]
                         ELSE CheckScoreError([r1 EXCEPT !.ins = "failed"])
               IN IF user_id # Absent
                  THEN /\ scores' = res.table
                       /\ first' = IF dbUp2 THEN NoteFirst(row, "check") ELSE first
                       /\ now' = t
                       /\ req' = [req EXCEPT ![s] =
                                   IF r2.pc = "idle"
                                   THEN Response(r2, 200, res.table) ELSE r2]
                  ELSE /\ req' = [req EXCEPT ![s] = Response(r1, 200, scores)]
                       /\ UNCHANGED <<scores, first, now>>
  /\ UNCHANGED <<uploads, sqlStrict, S3_BUCKET_NAME, sync>>
  /\ UNCHANGED otherVars

\* ------------------------------------------------------ POST /api/s3/upload
\* the fixed sentinel answer of a completed photo mission: 'PHOTO'
PHOTO == <<"P", "H", "O", "T", "O">>

\* the ScoreRecord the upload handler writes for a photo-type quest
UploadScoreRow(r, t) ==
  [id |-> 0, user_id |-> r.user_id, quest_id |-> r.id,
   user_answer |-> PHOTO, correct_answer |-> <<"A">>,
   score |-> 1, answered_at |-> t]

\* the UploadRecord the upload handler writes
UploadRow(r, t) ==
  [user_id |-> r.user_id, quest_id |-> r.id, uploaded_at |-> t]

\* a handler that goes on to its records after a PutObject that failed
PutErrorIgnored(r) == [r EXCEPT !.pc = "history"]

\* the rejection of s3Client.send reaches the handler's outer catch
CatchUploadError(r) == Response(r, 500, scores)

\* Entry, validation and `await s3Client.send(PutObjectCommand)`
UploadPut(s, file, user_id, quest_id) ==
  /\ Free(s)
  /\ Quiet
  /\ reqCount < MaxReq
  /\ reqCount' = reqCount + 1
  /\ \E s3Up \in BOOLEAN :
       LET r0 == [IdleReq EXCEPT !.kind = "upload", !.id = quest_id,
                                 !.user_id = user_id, !.file = file]
           r1 == [r0 EXCEPT !.put = IF s3Up THEN "stored" ELSE "failed"]
       IN req' = [req EXCEPT ![s] =
            IF ~file THEN Response(r0, 400, scores)
            ELSE IF S3_BUCKET_NAME = "" THEN Response(r0, 500, scores)
            ELSE IF user_id = Absent THEN Response(r0, 400, scores)
            ELSE IF ~s3Up THEN CatchUploadError(r1)
            ELSE [r1 EXCEPT !.pc = "history"]]
  /\ UNCHANGED <<scores, uploads, now, sqlStrict, S3_BUCKET_NAME, first, sync>>
  /\ UNCHANGED otherVars

\* INSERT INTO user_upload_history (a failure is logged only), then for a
\* request with a quest_id `SELECT * FROM quests WHERE id = ?` and the
\* photo-mission test.  The quests table does not change, so the lookup is
\* taken in the same step as the statement before it.
UploadHistory(s) ==
  /\ Quiet
  /\ req[s].kind = "upload"
  /\ req[s].pc = "history"
  /\ \E dbUp \in BOOLEAN, dbUp2 \in BOOLEAN, t \in Clock :
       LET r == req[s]
           questRows == QuestRows(r.id)
       IN /\ uploads' = IF dbUp THEN uploads (+) SetToBag({UploadRow(r, t)})
                        ELSE uploads
          /\ now' = t
          /\ req' = [req EXCEPT ![s] =
               IF r.id = NoQuest THEN Response(r, 200, scores)
               ELSE IF dbUp2 /\ Len(questRows) > 0 /\ IsPhotoQuest(questRows[1])
                    THEN [r EXCEPT !.pc = "score"]
                    ELSE Response(r, 200, scores)]
  /\ UNCHANGED <<scores, sqlStrict, S3_BUCKET_NAME, reqCount, first, sync>>
  /\ UNCHANGED otherVars

\* The INSERT of the ScoreRecord of the photo mission, and the response
UploadScore(s) ==
  /\ Quiet
  /\ req[s].kind = "upload"
  /\ req[s].pc = "score"
  /\ \E dbUp \in BOOLEAN, t \in Clock :
       LET r == req[s]
           row == UploadScoreRow(r, t)
           res == IF dbUp THEN InsertScore(scores, row, sqlStrict)
                  ELSE [ok |-> FALSE, table |-> scores]
           r1 == [r EXCEPT !.ins = IF res.ok THEN "reached" ELSE "failed"]
       IN /\ scores' = res.table
          /\ first' = IF dbUp THEN NoteFirst(row, "upload") ELSE first
          /\ now' = t
          /\ req' = [req EXCEPT ![s] = Response(r1, 200, res.table)]
  /\ UNCHANGED <<uploads, sqlStrict, S3_BUCKET_NAME, reqCount, sync>>
  /\ UNCHANGED otherVars

\* ------------------------------------------------- syncPhotoQuestsToScores
\* SELECT DISTINCT uuh.user_id, uuh.quest_id, uuh.uploaded_at ... : uploads of
\* a photo-type quest whose pair has no ScoreRecord
SyncCandidates ==
  {u \in BagToSet(uploads) :
       /\ u.quest_id # NoQuest
       /\ u.quest_id \in QuestIds
       /\ IsPhotoQuest(Quests[u.quest_id])
       /\ ScoreRowsOf(scores, u.user_id, u.quest_id) = {}}

\* ORDER BY uuh.uploaded_at DESC: every order of the rows the store may return
SyncOrders(S) ==
  {o \in [1..Cardinality(S) -> S] :
     /\ \A i, j \in 1..Cardinality(S) : i # j => o[i] # o[j]
     /\ \A i, j \in 1..Cardinality(S) :
          i < j => o[i].uploaded_at >= o[j].uploaded_at}

\* list: the records of uploadHistory the for loop has not finished, the
\* first of them being the current record
IdleSync == [pc |-> "idle", list |-> <<>>, runs |-> 0]

\* the ScoreRecord the job writes for an upload
SyncRow(record) ==
  [id |-> 0, user_id |-> record.user_id, quest_id |-> record.quest_id,
   user_answer |-> PHOTO, correct_answer |-> <<"A">>,
   score |-> 1, answered_at |-> record.uploaded_at]

\* The for loop over `list`: `SELECT * FROM quests WHERE id = ?` for each
\* record in turn until one has its quest looked up, and then the job is at
\* the INSERT of that record; found[k] tells whether the store answered the
\* lookup of the k-th record.  The quests table does not change, so the
\* lookups are taken in the same step as the statement before them.
RECURSIVE SyncLoop(_, _, _)
SyncLoop(y, list, found) ==
  IF Len(list) = 0 THEN [y EXCEPT !.pc = "done", !.list = <<>>]
  ELSE IF Head(found) /\ Len(QuestRows(Head(list).quest_id)) > 0
       THEN [y EXCEPT !.pc = "insert", !.list = list]
       ELSE SyncLoop(y, Tail(list), Tail(found))

\* a startup sequence without a catch: the rejection ends the process
InitErrorEndsProcess(y) == [y EXCEPT !.pc = "crashed"]

\* catch (error) of initializeUploadHistoryTable, initializeHongHistory and
\* initializePhotoMissions: logged only, the startup sequence goes on
CatchInitError(y) == y

\* a for loop without a catch: the error ends the loop and reaches the
\* catch of the job, the records not yet taken stay unprocessed
SyncErrorEndsLoop(y, list, found) == [y EXCEPT !.pc = "done", !.list = list]

\* catch (syncError): logged only, the for loop goes on with the next record
CatchSyncError(y, list, found) == SyncLoop(y, list, found)

\* app.listen(PORT): the process serves requests unless a rejection of the
\* startup sequence has ended it
Listening == sync.pc # "crashed"

\* Process start: the initialisers before the job (initsOk: none of them
\* failed) and the selection query of the job (dbUp: the store answers it)
SyncStart(maxRuns) ==
  /\ Quiet
  /\ sync.pc \in {"idle", "done"}
  /\ sync.runs < maxRuns
  /\ \E initsOk \in BOOLEAN, dbUp \in BOOLEAN :
       LET y0 == [sync EXCEPT !.runs = sync.runs + 1]
           y == IF initsOk THEN y0 ELSE CatchInitError(y0)
       IN IF y.pc = "crashed" THEN sync' = y
          ELSE IF dbUp
          THEN \E o \in SyncOrders(SyncCandidates) :
               \E found \in [1..Len(o) -> BOOLEAN] :
                 sync' = SyncLoop(y, o, found)
          ELSE sync' = [y EXCEPT !.pc = "done"]
  /\ UNCHANGED <<scores, uploads, now, sqlStrict, S3_BUCKET_NAME, req, reqCount,
                 first>>
  /\ UNCHANGED otherVars

\* the process starts at most MaxSyncRuns times while requests are served
SyncSelect == SyncStart(MaxSyncRuns)

\* the job is run again over the same uploads
SyncAgain == SyncStart(MaxJobRuns)

\* The INSERT of the ScoreRecord of the current record; a failure is logged only
SyncInsert ==
  /\ Quiet
  /\ sync.pc = "insert"
  /\ \E dbUp \in BOOLEAN :
     \E found \in [1..(Len(sync.list) - 1) -> BOOLEAN] :
       LET row == SyncRow(Head(sync.list))
           res == IF dbUp THEN InsertScore(scores, row, sqlStrict)
                  ELSE [ok |-> FALSE, table |-> scores]
       IN /\ scores' = res.table
          /\ first' = IF dbUp THEN NoteFirst(row, "sync") ELSE first
          /\ sync' = IF res.ok THEN SyncLoop(sync, Tail(sync.list), found)
                     ELSE CatchSyncError(sync, Tail(sync.list), found)
  /\ UNCHANGED <<uploads, now, sqlStrict, S3_BUCKET_NAME, req, reqCount>>
  /\ UNCHANGED otherVars

\* ------------------------------------------------- GET /api/quests/random
\* Query parameters as Express hands them over.  Two of them still hold a
\* '%': "Je%6Au" is the encoded form of "Jeju", "%" alone is malformed.
Cities == {Absent, "Jeju", "Seogwipo", "Busan", "Je%6Au", "%"}
Towns == {Absent, "Aewol", "Seongsan", "Hallim"}
Villages == {Absent, "Woljeong", "Seongsan", "Sehwa"}

\* s.includes('%')
IncludesPercent(s) == s \in {"Je%6Au", "%"}

\* if (s && s.includes('%')) { try { s = decodeURIComponent(s) } catch {} }
DecodeParam(s) ==
  IF s # Absent /\ IncludesPercent(s)
  THEN (IF s = "Je%6Au" THEN "Jeju" ELSE s)
  ELSE s

\* the WHERE clause over a quests table:
\*   city = ? AND option_a (=|!=) '사진 미션' [AND town = ?] [AND village = ?]
SelectQuests(catalog, type, city, town, village) ==
  {q \in DOMAIN catalog :
     /\ catalog[q].city = city
     /\ (type = "photo") = IsPhotoQuest(catalog[q])
     /\ town # Absent => catalog[q].town = town
     /\ village # Absent => catalog[q].village = village}

\* a first query that finds nothing, whatever the table holds
FirstQueryNone(catalog, questType, city, town, village) == {}

\* the first query, for the drawn type
FirstQuery(catalog, questType, city, town, village) ==
  SelectQuests(catalog, questType, city, town, village)

\* a fallback to the type that was drawn
FallbackTypeSame(questType) == questType

\* const fallbackType = questType === 'photo' ? 'question' : 'photo'
FallbackType(questType) == IF questType = "photo" THEN "question" ELSE "photo"

\* a fallback query that leaves out the village condition
FallbackQueryNoVillage(catalog, fallbackType, city, town, village) ==
  SelectQuests(catalog, fallbackType, city, town, Absent)

\* the fallback query, for the opposite type
FallbackQuery(catalog, fallbackType, city, town, village) ==
  SelectQuests(catalog, fallbackType, city, town, village)

\* a fallback that answers with the drawn type
FinalTypeDrawn(questType) == questType

\* const finalType = fallbackType
FinalType(questType) == FallbackType(questType)

\* a body that carries the answer among the options
QuestBodyWithAnswer(quest, type) ==
  [type |-> type, id |-> quest.id,
   region |-> [city |-> quest.city, town |-> quest.town,
               village |-> quest.village],
   text |-> quest.question,
   uploadEndpoint |-> IF type = "photo" THEN "/api/s3/upload" ELSE "",
   options |-> IF type = "photo" THEN <<>>
               ELSE <<quest.option_a, quest.correct_answer>>,
   score |-> quest.score]

\* the JSON body of a quest, by the type it is answered as
QuestBody(quest, type) ==
  [type |-> type, id |-> quest.id,
   region |-> [city |-> quest.city, town |-> quest.town,
               village |-> quest.village],
   text |-> quest.question,
   uploadEndpoint |-> IF type = "photo" THEN "/api/s3/upload" ELSE "",
   options |-> IF type = "photo" THEN <<>> ELSE <<quest.option_a>>,
   score |-> quest.score]

NoBody ==
  [type |-> "none", id |-> NoQuest,
   region |-> [city |-> NULL, town |-> NULL, village |-> NULL],
   text |-> "", uploadEndpoint |-> "", options |-> <<>>, score |-> 0]

\* twin: what the same request, draw and row order are answered over a quests
\* table that has other correct answers
IdleRq ==
  [status |-> 0, city |-> Absent, town |-> Absent, village |-> Absent,
   drawn |-> "none", queries |-> 0, body |-> NoBody,
   twin |-> [status |-> 0, body |-> NoBody]]

\* ORDER BY RAND() LIMIT 1: the row the random order puts first; rand is
\* the id the order starts from
FirstByRand(rows, rand) ==
  CHOOSE q \in rows :
    \A p \in rows : (q - rand) % Cardinality(QuestIds) <= (p - rand) % Cardinality(QuestIds)

\* The handler over a quests table.  city, town, village: the parameters
\* after decoding; questType: the type Math.random() draws; fail: the
\* statement of this request at which the store throws (0: at none).
\* queries counts the type-filtered selection queries issued.
RandomAnswer(catalog, city, town, village, questType, fail, rand) ==
  LET r0 == [IdleRq EXCEPT !.city = city, !.town = town, !.village = village]
      r1 == [r0 EXCEPT !.drawn = questType, !.queries = 1]
      r2 == [r1 EXCEPT !.queries = 2]
      rows == FirstQuery(catalog, questType, city, town, village)
      rows2 == FallbackQuery(catalog, FallbackType(questType), city, town, village)
  IN IF city = Absent THEN [r0 EXCEPT !.status = 400]
     ELSE IF fail = 1 THEN [r1 EXCEPT !.status = 500]
     ELSE IF rows # {}
     THEN [r1 EXCEPT !.status = 200,
                     !.body = QuestBody(catalog[FirstByRand(rows, rand)], questType)]
     ELSE IF fail = 2 THEN [r2 EXCEPT !.status = 500]
     ELSE IF rows2 # {}
     THEN [r2 EXCEPT !.status = 200,
                     !.body = QuestBody(catalog[FirstByRand(rows2, rand)],
                                        FinalType(questType))]
     ELSE IF fail = 3 THEN [r2 EXCEPT !.status = 500]
     ELSE [r2 EXCEPT !.status = 404]

\* the answer letters, and the letter k places after c
Letters == <<"A", "B", "C", "D">>
LetterAfter(c, k) ==
  LET i == CHOOSE j \in 1..Len(Letters) : Letters[j] = c
  IN Letters[((i - 1 + k) % Len(Letters)) + 1]

\* quests tables that differ from Quests in correct_answer only
OtherAnswers ==
  {[q \in QuestIds |->
      [Quests[q] EXCEPT !.correct_answer = <<LetterAfter(@[1], k)>>]] : k \in 1..3}

\* A request is answered.  rawCity, rawTown, rawVillage: the query
\* parameters as they arrive.
RandomQuest(rawCity, rawTown, rawVillage, questType, fail) ==
  /\ rq.status = 0
  /\ \E rand \in QuestIds, other \in OtherAnswers :
       LET r == RandomAnswer(Quests, DecodeParam(rawCity), DecodeParam(rawTown),
                             DecodeParam(rawVillage), questType, fail, rand)
           o == RandomAnswer(other, DecodeParam(rawCity), DecodeParam(rawTown),
                             DecodeParam(rawVillage), questType, fail, rand)
       IN rq' = [r EXCEPT !.twin = [status |-> o.status, body |-> o.body]]
  /\ UNCHANGED <<ledgerVars, cacheVars, historyVars>>

\* the response is sent and the handler returns
RandomReturn ==
  /\ rq.status # 0
  /\ rq' = IdleRq
  /\ UNCHANGED <<ledgerVars, cacheVars, historyVars>>

\* ------------------------------------------------- getSeongsanImageList
\* const CACHE_TTL = 5 * 60 * 1000; one unit of dateNow is 2.5 minutes
CACHE_TTL == 2

\* Object keys are the sequences of their '/'-separated parts.  "SS" stands
\* for the two Hangul syllables of '성산'; "seongsan" is the Latin spelling.
Key0 == <<"uploads", "SS0.jpeg">>
Key1 == <<"uploads", "SS1.jpeg">>
KeyPng == <<"uploads", "SS2.png">>
KeyLatin == <<"uploads", "seongsan0.jpeg">>
KeyNested == <<"uploads", "u1", "SS9.jpeg">>
KeyElsewhere == <<"images", "SS0.jpeg">>
Keys == {Key0, Key1, KeyPng, KeyLatin, KeyNested, KeyElsewhere}

\* the order of the keys as strings, by UTF-16 code units (Latin letters
\* come before Hangul syllables)
KeyRank(key) ==
  CASE key = KeyElsewhere -> 1
    [] key = KeyLatin -> 2
    [] key = KeyNested -> 3
    [] key = Key0 -> 4
    [] key = Key1 -> 5
    [] key = KeyPng -> 6

\* the buckets a behaviour starts from
InitBuckets ==
  {{}, {Key0, Key1, KeyLatin, KeyElsewhere}, {Key1, KeyNested, KeyPng, Key0}}
DefaultBucket == {Key0, Key1, KeyLatin, KeyElsewhere}

\* ListObjectsV2 with Prefix 'uploads/': the keys under the prefix, in the
\* ascending order S3 lists them in
RECURSIVE Ascending(_)
Ascending(S) ==
  IF S = {} THEN <<>>
  ELSE LET k == CHOOSE x \in S : \A y \in S : KeyRank(x) <= KeyRank(y)
       IN <<k>> \o Ascending(S \ {k})

ListObjectsV2(objects) ==
  Ascending({k \in objects : k[1] = "uploads" /\ Len(k) >= 2})

\* key.split('/').pop()
FileName(key) == key[Len(key)]

\* fileName.startsWith('성산')
StartsWithSeongsan(fileName) == fileName \in {"SS0.jpeg", "SS1.jpeg", "SS2.png", "SS9.jpeg"}

\* fileName.endsWith('.jpeg')
EndsWithJpeg(fileName) == fileName \in {"SS0.jpeg", "SS1.jpeg", "SS9.jpeg", "seongsan0.jpeg"}

\* a filter that lets every key through
IsAnyKey(key) == TRUE

\* the filter: fileName && fileName.startsWith('성산') && fileName.endsWith('.jpeg')
IsSeongsanJpeg(key) ==
  StartsWithSeongsan(FileName(key)) /\ EndsWithJpeg(FileName(key))

\* Array.prototype.sort() of keys
RECURSIVE SortKeys(_)
SortKeys(s) ==
  IF s = <<>> THEN <<>>
  ELSE LET rest == SortKeys(Tail(s))
           k == Head(s)
           lower == SelectSeq(rest, LAMBDA x : KeyRank(x) < KeyRank(k))
           upper == SelectSeq(rest, LAMBDA x : KeyRank(x) >= KeyRank(k))
       IN lower \o <<k>> \o upper

\* (listResponse.Contents || []).map(item => item.Key).filter(...).sort()
Files(contents) == SortKeys(SelectSeq(contents, IsSeongsanJpeg))

\* the cache entry: seongsanImageCache and cacheTimestamp
NullCache == [isNull |-> TRUE, files |-> <<>>]

\* a cache update that adds the files to those it holds
CacheAppend(entry, files, at) ==
  [cache |-> [isNull |-> FALSE, files |-> entry.cache.files \o files],
   timestamp |-> at]

\* seongsanImageCache = files; cacheTimestamp = now
CacheUpdate(entry, files, at) ==
  [cache |-> [isNull |-> FALSE, files |-> files], timestamp |-> at]

\* a catch that caches the empty list
CatchCachesEmpty(entry, at) ==
  [cache |-> [isNull |-> FALSE, files |-> <<>>], timestamp |-> at]

\* catch (error) { return [] }: the entry stays
CatchListError(entry, at) == entry

\* a cache test that never holds
CacheValidNever(at) == FALSE

\* seongsanImageCache && (now - cacheTimestamp) < CACHE_TTL
CacheValid(at) ==
  ~seongsanImageCache.isNull /\ (at - cacheTimestamp) < CACHE_TTL

\* a call: now is Date.now() at its entry, hit tells whether it returned the
\* cache, expired whether it found a cache that was too old, listed counts
\* the ListObjectsV2 commands it sent, ok tells whether its listing was
\* answered, result is what it returned
IdleCall ==
  [pc |-> "idle", now |-> 0, hit |-> FALSE, expired |-> FALSE, listed |-> 0,
   ok |-> FALSE, result |-> <<>>]

Callers == {1, 2}

\* Entry: the cache test, and for a cache that is null or too old the
\* ListObjectsV2 command is sent
ListEnter(c) ==
  /\ call[c].pc = "idle"
  /\ IF CacheValid(dateNow)
     THEN /\ call' = [call EXCEPT ![c] =
                 [IdleCall EXCEPT !.pc = "done", !.now = dateNow, !.hit = TRUE,
                                  !.result = seongsanImageCache.files]]
          /\ UNCHANGED listings
     ELSE /\ listings < MaxListings
          /\ listings' = listings + 1
          /\ call' = [call EXCEPT ![c] =
                 [IdleCall EXCEPT !.pc = "listing", !.now = dateNow,
                                  !.expired = ~seongsanImageCache.isNull,
                                  !.listed = 1]]
  /\ UNCHANGED <<seongsanImageCache, cacheTimestamp, dateNow, bucket, puts>>
  /\ UNCHANGED <<ledgerVars, rq, historyVars>>

\* The listing is answered (the command of an unnamed bucket never is):
\* filter, sort, cache update and return; or it throws and [] is returned
ListRespond(c) ==
  /\ call[c].pc = "listing"
  /\ \E answered \in BOOLEAN :
       LET entry == [cache |-> seongsanImageCache, timestamp |-> cacheTimestamp]
           files == Files(ListObjectsV2(bucket))
           e == IF answered /\ S3_BUCKET_NAME # ""
                THEN CacheUpdate(entry, files, call[c].now)
                ELSE CatchListError(entry, call[c].now)
       IN /\ seongsanImageCache' = e.cache
          /\ cacheTimestamp' = e.timestamp
          /\ call' = [call EXCEPT ![c] =
               IF answered /\ S3_BUCKET_NAME # ""
               THEN [@ EXCEPT !.pc = "done", !.ok = TRUE, !.result = files]
               ELSE [@ EXCEPT !.pc = "done", !.ok = FALSE, !.result = <<>>]]
  /\ UNCHANGED <<dateNow, bucket, listings, puts>>
  /\ UNCHANGED <<ledgerVars, rq, historyVars>>

\* the caller has taken the result
ListReturn(c) ==
  /\ call[c].pc = "done"
  /\ call' = [call EXCEPT ![c] = IdleCall]
  /\ UNCHANGED <<seongsanImageCache, cacheTimestamp, dateNow, bucket, listings, puts>>
  /\ UNCHANGED <<ledgerVars, rq, historyVars>>

\* time passes
Tick ==
  /\ dateNow < MaxNow
  /\ dateNow' = dateNow + 1
  /\ UNCHANGED <<seongsanImageCache, cacheTimestamp, bucket, call, listings, puts>>
  /\ UNCHANGED <<ledgerVars, rq, historyVars>>

\* an object is put into the bucket (PutObjectCommand) or deleted from it
\* (DeleteObjectCommand)
BucketChange(key) ==
  /\ puts < MaxPuts
  /\ puts' = puts + 1
  /\ bucket' = IF key \in bucket THEN bucket \ {key} ELSE bucket \cup {key}
  /\ UNCHANGED <<seongsanImageCache, cacheTimestamp, dateNow, call, listings>>
  /\ UNCHANGED <<ledgerVars, rq, historyVars>>

\* process start with these objects in the bucket
InitCacheVars(objects) ==
  /\ seongsanImageCache = NullCache
  /\ cacheTimestamp = 0
  /\ dateNow = CACHE_TTL
  /\ bucket = objects
  /\ call = [c \in Callers |-> IdleCall]
  /\ listings = 0
  /\ puts = 0

\* ------------------------------------------ GET /api/users/:user_id/quests
\* :user_id as Express hands it over.  "u%31" still holds the encoded form of
\* "u1", "%" alone is malformed.
UserParams == {"u1", "u2", "u%31", "%"}

\* try { user_id = decodeURIComponent(user_id) } catch (e) { }
DecodeUser(s) == IF s = "u%31" THEN "u1" ELSE s

Regions == {"ap-northeast-2", "us-east-1"}

\* The object a URL points to: a default image uploads/seongsan<slot>.jpeg,
\* or the file_key of an UploadRecord.
NoObject ==
  [src |-> "none", slot |-> 0, user_id |-> Absent, quest_id |-> NoQuest,
   uploaded_at |-> 0]
DefaultObject(index) == [NoObject EXCEPT !.src = "default", !.slot = index]
UploadObject(r) ==
  [NoObject EXCEPT !.src = "upload", !.user_id = r.user_id,
                   !.quest_id = r.quest_id, !.uploaded_at = r.uploaded_at]

\* imageUrl = null
NullUrl == [kind |-> "null", region |-> "", obj |-> NoObject]

\* `https://${S3_BUCKET_NAME}.s3.${region}.amazonaws.com/${key}`
StaticUrl(region, obj) == [kind |-> "static", region |-> region, obj |-> obj]

\* getSignedUrl(s3Client, new GetObjectCommand({Bucket, Key}), {expiresIn: 300})
\* the host of the URL is that of the client's region
SignedUrl(region, obj) == [kind |-> "signed", region |-> region, obj |-> obj]

\* file_url of an UploadRecord, as the upload handler stored it
FileUrl(r) == StaticUrl(AWS_REGION, UploadObject(r))

\* imageUrl.includes('s3.ap-northeast-2.amazonaws.com')
IncludesSeoulHost(url) == url.kind # "null" /\ url.region = "ap-northeast-2"

\* imageUrl.split('.s3.ap-northeast-2.amazonaws.com/')[1]?.split('?')[0]
FileKey(url) == url.obj

\* What goes wrong while one request is answered: mode names the step that
\* fails, at the listing position it fails for (-1: for every position).
\*   lookup       the upload lookup by (user_id, quest_id) raises
\*   lookups      that lookup and the lookup by user_id both raise
\*   headNotFound HeadObject of the default image answers NotFound
\*   headError    HeadObject fails in another way
\*   signDefault  getSignedUrl raises in getSeongsanImageUrl
\*   sign         getSignedUrl raises in the handler's second pass
\*   signBoth     getSignedUrl raises in both places
FailureModes ==
  {"lookup", "lookups", "headNotFound", "headError", "signDefault", "sign",
   "signBoth"}
NoFailure == [mode |-> "none", at |-> -1]
Failures ==
  {NoFailure} \cup [mode : FailureModes, at : -1..(MaxRows - 1)]
Fails(failure, modes, index) ==
  failure.mode \in modes /\ (failure.at = -1 \/ failure.at = index)

\* SELECT ... FROM user_quest_scores uqs LEFT JOIN quests q ...
\*  WHERE uqs.user_id = ? ORDER BY uqs.answered_at DESC
\* rows of equal answered_at come in the order of their ids, up or down
RECURSIVE OrderByAnsweredAtDesc(_, _)
OrderByAnsweredAtDesc(rows, tie) ==
  IF rows = {} THEN <<>>
  ELSE LET newest == {r \in rows : \A o \in rows : o.answered_at <= r.answered_at}
           r == CHOOSE r \in newest :
                  \A o \in newest : IF tie THEN r.id <= o.id ELSE r.id >= o.id
       IN <<r>> \o OrderByAnsweredAtDesc(rows \ {r}, tie)

\* the rows in insertion order, whatever their answered_at
OrderById(user_id, tie) ==
  SelectSeq(scores, LAMBDA r : r.user_id = user_id)

\* the score query of the handler
SelectScores(user_id, tie) ==
  OrderByAnsweredAtDesc({scores[i] : i \in {j \in 1..Len(scores) :
                                            scores[j].user_id = user_id}}, tie)

\* ... ORDER BY uploaded_at DESC LIMIT 1: file_url of the row, or null
LatestFileUrl(rows) ==
  IF rows = {} THEN NullUrl
  ELSE FileUrl(CHOOSE r \in rows : \A o \in rows : o.uploaded_at <= r.uploaded_at)

\* SELECT file_url, file_key FROM user_upload_history
\*  WHERE user_id = ? AND quest_id = ? ORDER BY uploaded_at DESC LIMIT 1
UploadsOfPair(user_id, quest_id) ==
  {r \in BagToSet(uploads) : r.user_id = user_id /\ r.quest_id = quest_id}

\* SELECT file_url, file_key FROM user_upload_history
\*  WHERE user_id = ? ORDER BY uploaded_at DESC LIMIT 1
UploadsOfUser(user_id) ==
  {r \in BagToSet(uploads) : r.user_id = user_id}

\* a catch block that lets the error go on
CatchRaises(url) == [raised |-> TRUE, url |-> url]

\* catch (fallbackError) { console.warn(...) }
CatchFallbackError(url) == [raised |-> FALSE, url |-> url]

\* catch (error) { console.error(...); return null } of getSeongsanImageUrl
CatchSeongsanError(url) == [raised |-> FALSE, url |-> NullUrl]

\* catch (urlError) { console.warn(...) }: imageUrl stays what it was
CatchUrlError(url) == [raised |-> FALSE, url |-> url]

Returned(url) == [raised |-> FALSE, url |-> url]

\* step 1 of the first pass: the upload lookup of a row, with its fallback
LookupUpload(user_id, row, index, failure) ==
  IF row.quest_id = NoQuest THEN Returned(NullUrl)
  ELSE IF Fails(failure, {"lookups"}, index) THEN CatchFallbackError(NullUrl)
  ELSE IF Fails(failure, {"lookup"}, index)
       THEN Returned(LatestFileUrl(UploadsOfUser(user_id)))
  ELSE Returned(LatestFileUrl(UploadsOfPair(user_id, row.quest_id)))

\* async function getSeongsanImageUrl(index)
getSeongsanImageUrl(index, failure) ==
  IF S3_BUCKET_NAME = "" THEN Returned(NullUrl)
  ELSE IF index < 0 \/ index > 2 THEN Returned(NullUrl)
  ELSE IF Fails(failure, {"headNotFound"}, index) THEN Returned(NullUrl)
  ELSE IF Fails(failure, {"signDefault", "signBoth"}, index)
       THEN CatchSeongsanError(NullUrl)
  ELSE Returned(SignedUrl(AWS_REGION, DefaultObject(index)))

\* the first pass over one row: rows.map(async (row, index) => ...)
WithImage(user_id, row, index, failure) ==
  LET up == LookupUpload(user_id, row, index, failure)
  IN IF up.raised THEN up
     ELSE IF up.url = NullUrl /\ index < 3
          THEN getSeongsanImageUrl(index, failure)
          ELSE up

\* the second pass over one row: a URL of the Seoul host is signed anew
Translated(url, index, failure) ==
  IF IncludesSeoulHost(url)
  THEN IF Fails(failure, {"sign", "signBoth"}, index)
       THEN CatchUrlError(url)
       ELSE Returned(SignedUrl(AWS_REGION, FileKey(url)))
  ELSE Returned(url)

\* both passes over one row
ImageOf(user_id, row, index, failure) ==
  LET one == WithImage(user_id, row, index, failure)
  IN IF one.raised THEN one ELSE Translated(one.url, index, failure)

\* one row of the response
ResponseRow(row, url) ==
  [id |-> row.id, user_id |-> row.user_id, quest_id |-> row.quest_id,
   answered_at |-> row.answered_at, image |-> url]

IdleHq ==
  [status |-> 0, user_id |-> Absent, dbFails |-> FALSE, failure |-> NoFailure,
   rows |-> <<>>]

\* app.get('/api/users/:user_id/quests'): the whole handler
HistoryAnswer(rawUser, dbFails, failure, tie) ==
  LET user_id == DecodeUser(rawUser)
      rows == SelectScores(user_id, tie)
      img == [i \in 1..Len(rows) |-> ImageOf(user_id, rows[i], i - 1, failure)]
      h == [IdleHq EXCEPT !.user_id = user_id, !.dbFails = dbFails,
                          !.failure = failure]
  IN IF dbFails \/ \E i \in 1..Len(rows) : img[i].raised
     THEN [h EXCEPT !.status = 500]
     ELSE [h EXCEPT !.status = 200,
                    !.rows = [i \in 1..Len(rows) |-> ResponseRow(rows[i], img[i].url)]]

HistoryRequest(rawUser, dbFails, failure, tie) ==
  /\ hq.status = 0
  /\ hq' = HistoryAnswer(rawUser, dbFails, failure, tie)
  /\ UNCHANGED <<ledgerVars, rq, cacheVars, AWS_REGION>>

\* res.json(translatedRows) or res.status(500) has been sent
HistoryReturn ==
  /\ hq.status # 0
  /\ hq' = IdleHq
  /\ UNCHANGED <<ledgerVars, rq, cacheVars, AWS_REGION>>

\* Ledgers the history is read from.  The user u1 has up to MaxRows
\* ScoreRecords, the i-th of them for quest HistoryQuests[i] and answered at
\* HistoryTimes[i] (two of them at the same time); u2 has one.
HistoryQuests == <<2, 3, 1, 4, 5>>
HistoryTimes == <<1, 2, 2, 3, 4>>
HistoryScores(n) ==
  [i \in 1..(n + 1) |->
     IF i = 1
     THEN [NoRow EXCEPT !.id = 1, !.user_id = "u2", !.quest_id = 1,
                        !.user_answer = <<"b">>, !.correct_answer = <<"B">>,
                        !.score = 1, !.answered_at = 2]
     ELSE [NoRow EXCEPT !.id = i, !.user_id = "u1",
                        !.quest_id = HistoryQuests[i - 1],
                        !.user_answer = <<"A">>,
                        !.correct_answer = Quests[HistoryQuests[i - 1]].correct_answer,
                        !.score = IF Quests[HistoryQuests[i - 1]].correct_answer = <<"A">>
                                  THEN 1 ELSE 0,
                        !.answered_at = HistoryTimes[i - 1]]]

\* UploadRecords there may be: two for (u1, 4), one for (u1, 3), one for u1
\* without a quest, one for (u1, 5), the latest of u1, and one of u2
HistoryUploads ==
  {[user_id |-> "u1", quest_id |-> 4, uploaded_at |-> 1],
   [user_id |-> "u1", quest_id |-> 4, uploaded_at |-> 3],
   [user_id |-> "u1", quest_id |-> 3, uploaded_at |-> 2],
   [user_id |-> "u1", quest_id |-> NoQuest, uploaded_at |-> 4],
   [user_id |-> "u1", quest_id |-> 5, uploaded_at |-> 6],
   [user_id |-> "u2", quest_id |-> 2, uploaded_at |-> 5]}

InitHistoryVars(region) ==
  /\ AWS_REGION = region
  /\ hq = IdleHq

InitLedger ==
  /\ scores = <<>>
  /\ uploads = EmptyBag
  /\ now = 0
  /\ sqlStrict \in BOOLEAN
  /\ S3_BUCKET_NAME \in {"goormthon-3", ""}
  /\ req = [s \in Slots |-> IdleReq]
  /\ reqCount = 0
  /\ first = [u \in Users |-> [q \in QuestIds |-> [by |-> "none", row |-> NoRow]]]
  /\ sync = IdleSync

Init ==
  /\ InitLedger
  /\ rq = IdleRq
  /\ InitCacheVars(DefaultBucket)
  /\ InitHistoryVars("ap-northeast-2")

Next ==
  \/ \E s \in Slots, in \in LedgerChecks : Check(s, in[1], in[2], in[3])
  \/ \E s \in Slots, in \in LedgerUploads : UploadPut(s, in[1], in[2], in[3])
  \/ \E s \in Slots : UploadHistory(s)
  \/ \E s \in Slots : UploadScore(s)
  \/ \E s \in Slots : Return(s)
  \/ SyncSelect
  \/ SyncInsert

Spec == Init /\ [][Next]_vars

\* The answer-check specification: check requests alone, with every kind of
\* input (lower and upper case, wrong, absent answer, absent user, no quest).
NextCheck ==
  \/ \E s \in Slots, in \in CheckInputs : Check(s, in[1], in[2], in[3])
  \/ \E s \in Slots : Return(s)

SpecCheck == Init /\ [][NextCheck]_vars

\* The upload specification: upload requests alone, with every kind of
\* input, on a process with or without a configured bucket.
NextUpload ==
  \/ \E s \in Slots, in \in UploadInputs : UploadPut(s, in[1], in[2], in[3])
  \/ \E s \in Slots : UploadHistory(s)
  \/ \E s \in Slots : UploadScore(s)
  \/ \E s \in Slots : Return(s)

SpecUpload == Init /\ [][NextUpload]_vars

\* The quest-selection specification: random-quest requests alone.
NextRandom ==
  \/ \E c \in Cities, t \in Towns, v \in Villages,
        questType \in {"photo", "question"}, fail \in 0..3 :
       RandomQuest(c, t, v, questType, fail)
  \/ RandomReturn

SpecRandom == Init /\ [][NextRandom]_vars

\* The default-image specification: calls of getSeongsanImageList, the
\* clock and the bucket.
InitCache ==
  /\ InitLedger
  /\ sqlStrict
  /\ rq = IdleRq
  /\ \E objects \in InitBuckets : InitCacheVars(objects)
  /\ InitHistoryVars("ap-northeast-2")

NextCache ==
  \/ \E c \in Callers : ListEnter(c)
  \/ \E c \in Callers : ListRespond(c)
  \/ \E c \in Callers : ListReturn(c)
  \/ Tick
  \/ \E key \in {Key0, KeyNested} : BucketChange(key)

SpecCache == InitCache /\ [][NextCache]_vars

\* The history specification: history requests over a ledger that checks
\* and uploads have filled.  Without a bucket name no upload was accepted.
InitHistory ==
  /\ \E n \in 0..MaxRows : scores = HistoryScores(n)
  /\ S3_BUCKET_NAME \in {"goormthon-3", ""}
  /\ \E rows \in SUBSET HistoryUploads :
       /\ S3_BUCKET_NAME = "" => rows = {}
       /\ uploads = SetToBag(rows)
  /\ now = 6
  /\ sqlStrict = FALSE
  /\ req = [s \in Slots |-> IdleReq]
  /\ reqCount = 0
  /\ first = [u \in Users |-> [q \in QuestIds |-> [by |-> "none", row |-> NoRow]]]
  /\ sync = IdleSync
  /\ rq = IdleRq
  /\ InitCacheVars(DefaultBucket)
  /\ \E region \in Regions : InitHistoryVars(region)

NextHistory ==
  \/ \E rawUser \in UserParams, failure \in Failures, tie \in BOOLEAN :
       HistoryRequest(rawUser, FALSE, failure, tie)
  \/ \E rawUser \in UserParams : HistoryRequest(rawUser, TRUE, NoFailure, FALSE)
  \/ HistoryReturn

SpecHistory == InitHistory /\ [][NextHistory]_vars

\* UploadRecords the job may find: three of (u1, 3) and one of (u2, 4), both
\* photo-type quests, one of a question-type quest and one without a quest
JobUploads ==
  {[user_id |-> "u1", quest_id |-> 3, uploaded_at |-> 1],
   [user_id |-> "u1", quest_id |-> 3, uploaded_at |-> 2],
   [user_id |-> "u1", quest_id |-> 3, uploaded_at |-> 3],
   [user_id |-> "u2", quest_id |-> 4, uploaded_at |-> 2],
   [user_id |-> "u1", quest_id |-> 1, uploaded_at |-> 1],
   [user_id |-> "u1", quest_id |-> NoQuest, uploaded_at |-> 2]}

\* the ScoreRecord a check of u2 with answer 'b' left for quest 4
JobCheckedRow ==
  [NoRow EXCEPT !.id = 1, !.user_id = "u2", !.quest_id = 4,
                !.user_answer = <<"B">>, !.correct_answer = <<"A">>,
                !.score = 0, !.answered_at = 1]

\* The reconciliation specification: the job run MaxJobRuns times over a
\* set of uploads that does not change, with no request in between.
InitSync ==
  /\ \E rows \in SUBSET JobUploads : uploads = SetToBag(rows)
  /\ scores \in {<<>>, <<JobCheckedRow>>}
  /\ now = 3
  /\ sqlStrict \in BOOLEAN
  /\ S3_BUCKET_NAME = "goormthon-3"
  /\ req = [s \in Slots |-> IdleReq]
  /\ reqCount = 0
  /\ first = [u \in Users |-> [q \in QuestIds |->
                IF scores # <<>> /\ u = "u2" /\ q = 4
                THEN [by |-> "check", row |-> JobCheckedRow]
                ELSE [by |-> "none", row |-> NoRow]]]
  /\ sync = IdleSync
  /\ rq = IdleRq
  /\ InitCacheVars(DefaultBucket)
  /\ InitHistoryVars("ap-northeast-2")

NextSync ==
  \/ SyncAgain
  \/ SyncInsert

SpecSync == InitSync /\ [][NextSync]_vars

\* the job's for loop is not suspended for ever: each awaited INSERT is
\* answered or fails
SpecSyncLive == SpecSync /\ WF_vars(SyncInsert)

\* ------------------------------------------------------------ the ledger
\* C1: in every reachable state, whatever checks with a user_id, upload
\* auto-scorings and reconciliation inserts have run and however they were
\* interleaved, user_quest_scores holds at most one row per
\* (user_id, quest_id).
C1_AtMostOneRecordPerPair ==
  \A i, j \in 1..Len(scores) :
    (scores[i].user_id = scores[j].user_id /\ scores[i].quest_id = scores[j].quest_id)
      => i = j

\* a check whose insert reached the store when its pair already had a row
\* with another answer
C1_SecondInsertReached ==
  \E s \in Slots :
    /\ req[s].pc = "done" /\ req[s].kind = "check" /\ req[s].ins = "reached"
    /\ req[s].recAfter # NoRow
    /\ req[s].recAfter.user_answer # req[s].userAnswer
    /\ Len(scores) >= 1

\* C2: no step rewrites or deletes a row of user_quest_scores: every step
\* leaves every existing row as it is (user_answer, score and answered_at
\* included) and the table only grows, whichever of check, upload
\* auto-scoring and reconciliation takes the step.
C2_LedgerOnlyGrows ==
  [][/\ Len(scores') >= Len(scores)
     /\ \A i \in 1..Len(scores) : scores'[i] = scores[i]]_vars

\* an upload whose auto-scoring insert reached the store when a check had
\* already written the row of the pair
C2_UploadAfterCheck ==
  \E s \in Slots :
    /\ req[s].pc = "done" /\ req[s].kind = "upload" /\ req[s].ins = "reached"
    /\ req[s].recAfter.user_answer \in {<<"A">>, <<"B">>}
    /\ first[req[s].user_id][req[s].id].by = "check"

\* ------------------------------------------------------------ answer check
\* C3 as stated: when the same (user_id, quest_id, answer) is checked a
\* second time, both responses carry the same awarded score, and afterwards
\* the pair has exactly one row, which is the row it had after the first call.
C3_SameCheckTwiceExactlyOne ==
  \A s \in Slots :
    (/\ req[s].pc = "done" /\ req[s].kind = "check" /\ req[s].status = 200
     /\ req[s].user_id # Absent
     /\ req[s].prevStatus = 200 /\ req[s].prevAnswer = req[s].answer)
    => /\ req[s].score = req[s].prevScore
       /\ Cardinality(ScoreRowsOf(scores, req[s].user_id, req[s].id)) = 1
       /\ req[s].recAfter = req[s].prevRec

\* C3 amended: when the same (user_id, quest_id, answer) is checked a second
\* time, both responses carry the same awarded score, afterwards the pair has
\* at most one row, and when the pair had a row after the first call it has
\* that very row after the second.
C3_SameCheckTwice ==
  \A s \in Slots :
    (/\ req[s].pc = "done" /\ req[s].kind = "check" /\ req[s].status = 200
     /\ req[s].user_id # Absent
     /\ req[s].prevStatus = 200 /\ req[s].prevAnswer = req[s].answer)
    => /\ req[s].score = req[s].prevScore
       /\ Cardinality(ScoreRowsOf(scores, req[s].user_id, req[s].id)) <= 1
       /\ req[s].prevRec # NoRow =>
            /\ req[s].recAfter = req[s].prevRec
            /\ ScoreRow(scores, req[s].user_id, req[s].id) = req[s].prevRec

\* the second of two equal checks, answered at a later second than the first
\* wrote the row
C3_SecondCallAnswered ==
  \E s \in Slots :
    /\ req[s].pc = "done" /\ req[s].kind = "check" /\ req[s].status = 200
    /\ req[s].user_id # Absent
    /\ req[s].prevStatus = 200 /\ req[s].prevAnswer = req[s].answer
    /\ req[s].prevRec # NoRow /\ req[s].ins = "reached"
    /\ now > req[s].prevRec.answered_at

\* C4: a check of an existing quest with a non-empty answer answers correct
\* exactly when the upper-cased answer equals the upper-cased correct_answer,
\* with score 1 when correct and 0 otherwise; "b" and "B" get the same
\* correct flag and score (both correct against 'B').
C4_CaseFoldedEquality ==
  \A s \in Slots :
    (req[s].pc = "done" /\ req[s].kind = "check" /\ req[s].status = 200)
    => /\ req[s].id \in QuestIds /\ Len(req[s].answer) > 0
       /\ req[s].correct =
            (ToUpperCase(req[s].answer) = ToUpperCase(Quests[req[s].id].correct_answer))
       /\ req[s].score = (IF req[s].correct THEN 1 ELSE 0)
       /\ (req[s].id = 1 /\ req[s].answer \in {<<"b">>, <<"B">>})
            => (req[s].correct /\ req[s].score = 1)
       /\ (/\ req[s].prevStatus = 200
           /\ ToUpperCase(req[s].prevAnswer) = ToUpperCase(req[s].answer))
            => req[s].score = req[s].prevScore

\* "b" is answered as correct right after "B" was
C4_LowerAfterUpper ==
  \E s \in Slots :
    /\ req[s].pc = "done" /\ req[s].kind = "check" /\ req[s].status = 200
    /\ req[s].id = 1 /\ req[s].answer = <<"b">> /\ req[s].correct
    /\ req[s].prevStatus = 200 /\ req[s].prevAnswer = <<"B">>

\* C5: when the ScoreRecord insert of a check fails (the store does not
\* answer it, or rejects it), the request is answered 200 with the correct
\* flag and score of the comparison, and the step leaves the ledger as it was.
C5_InsertFailureIsSwallowed ==
  [][\A s \in Slots :
       (req[s].pc = "idle" /\ req'[s].kind = "check" /\ req'[s].ins = "failed")
       => /\ req'[s].pc = "done" /\ req'[s].status = 200
          /\ req'[s].correct = IsCorrect(Quests[req'[s].id], req'[s].answer)
          /\ req'[s].score = FinalScore(req'[s].correct)
          /\ scores' = scores]_vars

\* a correct answer whose insert failed
C5_FailedInsertAnswered ==
  \E s \in Slots :
    /\ req[s].pc = "done" /\ req[s].kind = "check" /\ req[s].ins = "failed"
    /\ req[s].status = 200 /\ req[s].correct /\ req[s].score = 1
    /\ req[s].user_id # Absent

\* C6: a check without an answer is answered 400, and a check with an answer
\* whose quest lookup finds no quest is answered 404; neither writes a
\* ScoreRecord, with or without a user_id.  (The lookup runs only for a
\* request with an answer, and a store that does not answer it gives 503.)
C6_BadRequestAndNotFound ==
  [][\A s \in Slots :
       (req[s].pc = "idle" /\ req'[s].kind = "check")
       => /\ Len(req'[s].answer) = 0
               => (req'[s].status = 400 /\ scores' = scores)
          /\ (Len(req'[s].answer) > 0 /\ req'[s].id \notin QuestIds)
               => /\ req'[s].status # 503 => req'[s].status = 404
                  /\ scores' = scores
          /\ req'[s].status = 404 => req'[s].id \notin QuestIds
          /\ req'[s].status \in {400, 404} => req'[s].ins = "none"]_vars

\* a 404 answered right after a 400, both to requests that carry a user_id
C6_BothRejected ==
  \E s \in Slots :
    /\ req[s].pc = "done" /\ req[s].kind = "check" /\ req[s].status = 404
    /\ req[s].user_id # Absent /\ req[s].prevStatus = 400
    /\ scores = <<>>

\* ------------------------------------------------------- photo auto-scoring
\* C7: after an upload answered 200 for a photo-type quest whose pair had no
\* row before the auto-scoring insert of an upload reached the store, the
\* pair has a row with user_answer 'PHOTO', correct_answer 'A' and score 1.
C7_PhotoUploadRecorded ==
  \A s \in Slots :
    (/\ req[s].pc = "done" /\ req[s].kind = "upload" /\ req[s].status = 200
     /\ req[s].id \in QuestIds /\ IsPhotoQuest(Quests[req[s].id])
     /\ req[s].ins # "none"
     /\ first[req[s].user_id][req[s].id].by = "upload")
    => /\ ScoreRowsOf(scores, req[s].user_id, req[s].id) # {}
       /\ ScoreRow(scores, req[s].user_id, req[s].id).user_answer = PHOTO
       /\ ScoreRow(scores, req[s].user_id, req[s].id).correct_answer = <<"A">>
       /\ ScoreRow(scores, req[s].user_id, req[s].id).score = 1

\* C8: when the inserts of a check and of an upload of one user for one
\* photo-type quest have both reached the store, in either order, the pair
\* has exactly one row, the row holds the values of the insert that reached
\* the store first, and the quest enters the user's total once.
C8_FirstInsertWins ==
  \A s \in Slots :
    (/\ req[s].pc = "done" /\ req[s].kind \in {"check", "upload"}
     /\ req[s].id \in QuestIds /\ IsPhotoQuest(Quests[req[s].id])
     /\ req[s].user_id # Absent
     /\ req[s].ins = "reached"
     /\ first[req[s].user_id][req[s].id].by \in {"check", "upload"} \ {req[s].kind})
    => LET row == ScoreRow(scores, req[s].user_id, req[s].id)
           won == first[req[s].user_id][req[s].id].row
       IN /\ Cardinality(ScoreRowsOf(scores, req[s].user_id, req[s].id)) = 1
          /\ row.user_answer = won.user_answer
          /\ row.correct_answer = won.correct_answer
          /\ row.score = won.score
          /\ row.answered_at = won.answered_at

\* ------------------------------------------------------------ random quest
\* C9: a random-quest request answered 200 returns a quest whose city equals
\* the filter's, whose town equals the filter's when a town was sent and
\* whose village equals the filter's when a village was sent, by the first
\* query and by the fallback query alike; and a request is answered 404 only
\* when no quest at all matches the filter.
C9_RegionMatchesFilter ==
  /\ rq.status = 200 =>
       /\ rq.body.id \in QuestIds
       /\ rq.body.region.city = rq.city
       /\ rq.town # Absent => rq.body.region.town = rq.town
       /\ rq.village # Absent => rq.body.region.village = rq.village
       /\ rq.body.region.city = Quests[rq.body.id].city
       /\ rq.body.region.town = Quests[rq.body.id].town
       /\ rq.body.region.village = Quests[rq.body.id].village
  /\ rq.status = 404 =>
       ~ \E q \in QuestIds :
           /\ Quests[q].city = rq.city
           /\ rq.town # Absent => Quests[q].town = rq.town
           /\ rq.village # Absent => Quests[q].village = rq.village

\* a quest found by the fallback query for a filter of all three levels
C9_FallbackWithVillage ==
  /\ rq.status = 200 /\ rq.queries = 2
  /\ rq.town # Absent /\ rq.village # Absent
  /\ rq.body.region.village = rq.village

\* C10: the type of the body of a random-quest response is "photo" exactly
\* when the returned quest is a photo-type quest, so a region with
\* question-type quests only (Seogwipo) never gets a photo-type body,
\* whatever type was drawn.
C10_BodyTypeIsQuestType ==
  rq.status = 200 =>
    /\ rq.body.type \in {"photo", "question"}
    /\ (rq.body.type = "photo") = IsPhotoQuest(Quests[rq.body.id])
    /\ rq.city = "Seogwipo" => rq.body.type = "question"

\* photo was drawn for a region of question-type quests only, and a
\* question-type body was returned
C10_PhotoDrawnQuestionReturned ==
  /\ rq.status = 200 /\ rq.drawn = "photo" /\ rq.city = "Seogwipo"
  /\ rq.body.type = "question" /\ rq.queries = 2

\* C11: a random-quest request that carries a city and is answered by the
\* store gets 404 exactly when no quest of either type matches the region
\* filter, and otherwise gets one of the matching quests, whichever type was
\* drawn.
C11_NotFoundIffNoMatch ==
  LET matching == {q \in QuestIds :
                     /\ Quests[q].city = rq.city
                     /\ rq.town # Absent => Quests[q].town = rq.town
                     /\ rq.village # Absent => Quests[q].village = rq.village}
  IN /\ rq.status # 0 => ((rq.status = 400) = (rq.city = Absent))
     /\ rq.status \in {200, 404} =>
          /\ rq.city # Absent
          /\ (rq.status = 404) = (matching = {})
          /\ matching # {} => (rq.status = 200 /\ rq.body.id \in matching)

\* a city that has quests, with a village none of them is in: 404 after both
\* queries
C11_NoQuestInVillage ==
  /\ rq.status = 404 /\ rq.city = "Jeju" /\ rq.village = "Sehwa"
  /\ rq.queries = 2

\* C12: the response to a random-quest request does not depend on the
\* correct answers: over a quests table that differs in correct_answer only,
\* the same request with the same type draw and the same random order gets
\* the same status and the same body.
C12_AnswerNotRevealed ==
  rq.status # 0 => rq.twin = [status |-> rq.status, body |-> rq.body]

\* a question-type body with its options, answered alike over both tables
C12_QuestionBodyReturned ==
  /\ rq.status = 200 /\ rq.body.type = "question"
  /\ Len(rq.body.options) > 0
  /\ rq.twin.status = 200 /\ rq.twin.body.id = rq.body.id

\* ------------------------------------------------------ default-image list
\* C13: a call that finds a cache entry whose timestamp is less than
\* CACHE_TTL before now returns the cached keys as they are, sends no
\* ListObjectsV2 command and leaves the entry alone; so calls within one TTL
\* window of a filled cache return the same ordered list without a second
\* listing.
C13_CacheHitNoListing ==
  [][\A c \in Callers :
       (/\ call[c].pc = "idle" /\ call'[c].pc # "idle"
        /\ ~seongsanImageCache.isNull
        /\ (dateNow - cacheTimestamp) < CACHE_TTL)
       => /\ call'[c].pc = "done"
          /\ call'[c].result = seongsanImageCache.files
          /\ call'[c].listed = 0
          /\ listings' = listings
          /\ seongsanImageCache' = seongsanImageCache
          /\ cacheTimestamp' = cacheTimestamp]_vars

\* two calls answered from the cache that one listing filled
C13_TwoHits ==
  /\ \A c \in Callers : call[c].pc = "done" /\ call[c].hit
  /\ call[1].result = call[2].result
  /\ Len(call[1].result) > 0
  /\ listings = 1

\* C14: a call that finds the cache null or too old sends exactly one
\* ListObjectsV2 command, and when that listing is answered the call sets the
\* cache entry to the keys of the listing that are under uploads/ and named
\* 성산*.jpeg, in ascending order, with the call's entry time as timestamp,
\* and returns that list.
C14_RefreshAfterExpiry ==
  [][\A c \in Callers :
       /\ (/\ call[c].pc = "idle" /\ call'[c].pc # "idle"
           /\ (seongsanImageCache.isNull \/ (dateNow - cacheTimestamp) >= CACHE_TTL))
          => /\ call'[c].pc = "listing"
             /\ call'[c].listed = 1
             /\ listings' = listings + 1
       /\ (call[c].pc = "listing" /\ call'[c].pc = "done" /\ call'[c].ok)
          => LET s == call'[c].result
             IN /\ \A i, j \in 1..Len(s) : i < j => KeyRank(s[i]) < KeyRank(s[j])
                /\ {s[i] : i \in 1..Len(s)} =
                     {k \in bucket : /\ k[1] = "uploads"
                                     /\ k[Len(k)] \in {"SS0.jpeg", "SS1.jpeg", "SS9.jpeg"}}
                /\ seongsanImageCache' = [isNull |-> FALSE, files |-> s]
                /\ cacheTimestamp' = call[c].now
                /\ call'[c].listed = 1
                /\ listings' = listings]_vars

\* a call that found a filled cache too old, listed the bucket and put the
\* fresh list into the cache
C14_ExpiredRefreshed ==
  \E c \in Callers :
    /\ call[c].pc = "done" /\ call[c].expired /\ call[c].ok
    /\ call[c].listed = 1
    /\ seongsanImageCache.files = call[c].result
    /\ cacheTimestamp = call[c].now
    /\ Len(call[c].result) > 0

\* C15: while the bucket has not changed, every call whose listing was
\* answered returns the same list, namely the bucket's 성산*.jpeg keys under
\* uploads/ in ascending order, each call that found the cache null or too
\* old sent its own ListObjectsV2 command, and a cache that is set holds
\* exactly that list, however the calls are interleaved.
C15_RacingRefreshesAgree ==
  puts = 0 =>
    LET expected == {k \in bucket : /\ k[1] = "uploads"
                                    /\ k[Len(k)] \in {"SS0.jpeg", "SS1.jpeg", "SS9.jpeg"}}
        Is(s) == /\ {s[i] : i \in 1..Len(s)} = expected
                 /\ \A i, j \in 1..Len(s) : i < j => KeyRank(s[i]) < KeyRank(s[j])
    IN /\ \A c \in Callers :
            /\ (call[c].pc = "done" /\ (call[c].hit \/ call[c].ok)) => Is(call[c].result)
            /\ (call[c].pc # "idle" /\ ~call[c].hit) => call[c].listed = 1
       /\ ~seongsanImageCache.isNull => Is(seongsanImageCache.files)
       /\ Cardinality({c \in Callers : call[c].pc # "idle" /\ ~call[c].hit}) <= listings

\* two calls that both listed the unchanged bucket and both wrote the cache
C15_TwoRefreshes ==
  /\ puts = 0
  /\ \A c \in Callers : call[c].pc = "done" /\ ~call[c].hit /\ call[c].ok
  /\ call[1].result = call[2].result
  /\ seongsanImageCache.files = call[1].result
  /\ Len(call[1].result) > 0

\* C16: a call whose listing fails returns the empty list and leaves
\* seongsanImageCache and cacheTimestamp as they were, so that a call after
\* it meets the same cache test as one before it: the failure itself makes no
\* later call a cache hit.
C16_ListingFailureNotCached ==
  [][\A c \in Callers :
       (call[c].pc = "listing" /\ call'[c].pc = "done" /\ ~call'[c].ok)
       => /\ call'[c].result = <<>>
          /\ seongsanImageCache' = seongsanImageCache
          /\ cacheTimestamp' = cacheTimestamp
          /\ CacheValid(dateNow)' = CacheValid(dateNow)]_vars

\* a listing of a named bucket failed and the old entry was kept
C16_FailedWithOldEntry ==
  \E c \in Callers :
    /\ call[c].pc = "done" /\ ~call[c].ok /\ call[c].listed = 1
    /\ call[c].expired /\ call[c].result = <<>>
    /\ S3_BUCKET_NAME # ""
    /\ ~seongsanImageCache.isNull /\ Len(seongsanImageCache.files) > 0

\* ------------------------------------------------------- history listing
\* C17: in a listing that met no failure and has a bucket to sign for, the
\* entries whose (user_id, quest_id) has no UploadRecord get the default
\* images in order: the first such entry slot 0, the second slot 1, the
\* third slot 2, and every later one no image.
C17_DefaultsByUnresolvedRank ==
  (hq.status = 200 /\ hq.failure = NoFailure /\ S3_BUCKET_NAME # "") =>
    \A i \in 1..Len(hq.rows) :
      UploadsOfPair(hq.user_id, hq.rows[i].quest_id) = {} =>
        LET rank == Cardinality({j \in 1..(i - 1) :
                       UploadsOfPair(hq.user_id, hq.rows[j].quest_id) = {}})
        IN hq.rows[i].image =
             IF rank < 3 THEN SignedUrl(AWS_REGION, DefaultObject(rank))
             ELSE NullUrl

\* C18: the image of an entry whose (user_id, quest_id) has UploadRecords
\* points to the object of the latest UploadRecord of that pair.
C18_ImageFromLatestUploadOfPair ==
  hq.status = 200 =>
    \A i \in 1..Len(hq.rows) :
      LET own == UploadsOfPair(hq.user_id, hq.rows[i].quest_id)
      IN own # {} =>
           hq.rows[i].image.obj =
             UploadObject(CHOOSE r \in own : \A o \in own : o.uploaded_at <= r.uploaded_at)

\* C19: every image of a history response is null or a URL signed while the
\* request was answered, never the static file_url of an UploadRecord.
C19_NullOrSignedHandle ==
  hq.status = 200 =>
    \A i \in 1..Len(hq.rows) : hq.rows[i].image.kind \in {"null", "signed"}

\* C20: a history request whose score query was answered gets 200 with
\* exactly the ScoreRecords of the user_id the handler queried for, one
\* entry each, newest first, whatever failed while the images were resolved.
C20_HistoryAlwaysAnswered ==
  (hq.status # 0 /\ ~hq.dbFails) =>
    LET own == {j \in 1..Len(scores) : scores[j].user_id = hq.user_id}
    IN /\ hq.status = 200
       /\ Len(hq.rows) = Cardinality(own)
       /\ {hq.rows[i].id : i \in 1..Len(hq.rows)} = {scores[j].id : j \in own}
       /\ \A i \in 1..Len(hq.rows) :
            /\ hq.rows[i].user_id = hq.user_id
            /\ \E j \in own :
                 /\ scores[j].id = hq.rows[i].id
                 /\ scores[j].quest_id = hq.rows[i].quest_id
                 /\ scores[j].answered_at = hq.rows[i].answered_at
       /\ \A i, j \in 1..Len(hq.rows) :
            i < j => hq.rows[i].answered_at >= hq.rows[j].answered_at

\* a listing of three or more entries answered although signing failed for
\* every one of them
C20_AllSigningFailed ==
  /\ hq.status = 200
  /\ hq.failure = [mode |-> "signBoth", at |-> -1]
  /\ Len(hq.rows) >= 3
  /\ \E i \in 1..Len(hq.rows) : hq.rows[i].image = NullUrl
  /\ \E i \in 1..Len(hq.rows) : hq.rows[i].image.kind = "static"

\* ---------------------------------------------------- reconciliation job
\* C21 as stated: a second run of the job over the same uploads inserts
\* nothing: no step of a run after the first changes user_quest_scores.
C21_SecondRunInsertsNothing ==
  [][sync.runs >= 2 => scores' = scores]_vars

\* C21 amended: over both runs no step rewrites a row, no pair ever has two
\* rows, and a step of a run after the first adds at most one row, for a
\* pair of a photo-type upload that had no row when the step was taken.
C21_NoDuplicatesAcrossRuns ==
  [][/\ \A i \in 1..Len(scores) : i <= Len(scores') /\ scores'[i] = scores[i]
     /\ \A i, j \in 1..Len(scores') :
          (/\ scores'[i].user_id = scores'[j].user_id
           /\ scores'[i].quest_id = scores'[j].quest_id) => i = j
     /\ (sync.runs >= 2 /\ scores' # scores) =>
          /\ Len(scores') = Len(scores) + 1
          /\ \E u \in BagToSet(uploads) :
               /\ u.user_id = scores'[Len(scores')].user_id
               /\ u.quest_id = scores'[Len(scores')].quest_id
               /\ IsPhotoQuest(Quests[u.quest_id])
               /\ ScoreRowsOf(scores, u.user_id, u.quest_id) = {}]_vars

\* the second run has ended over a ledger in which the first run had written
\* the row of a pair that has three uploads
C21_SecondRunDone ==
  /\ sync.runs = 2 /\ sync.pc = "done"
  /\ first["u1"][3].by = "sync"
  /\ Cardinality(ScoreRowsOf(scores, "u1", 3)) = 1
  /\ Cardinality(UploadsOfPair("u1", 3)) = 3

\* C22: when a run of the job has ended, every upload of a photo-type quest
\* has a row for its (user_id, quest_id), every row the job wrote holds
\* user_answer 'PHOTO', correct_answer 'A', score 1 and the uploaded_at of an
\* upload of its pair as answered_at, and no pair whose uploads are all
\* without a quest or of a question-type quest got a row from the job.
C22_EveryPhotoUploadScored ==
  (sync.pc = "done" /\ sync.runs >= 1) =>
    /\ \A u \in BagToSet(uploads) :
         (u.quest_id \in QuestIds /\ IsPhotoQuest(Quests[u.quest_id]))
           => ScoreRowsOf(scores, u.user_id, u.quest_id) # {}
    /\ \A i \in 1..Len(scores) :
         first[scores[i].user_id][scores[i].quest_id].by = "sync" =>
           /\ scores[i].user_answer = PHOTO
           /\ scores[i].correct_answer = <<"A">>
           /\ scores[i].score = 1
           /\ \E u \in UploadsOfPair(scores[i].user_id, scores[i].quest_id) :
                scores[i].answered_at = u.uploaded_at
           /\ IsPhotoQuest(Quests[scores[i].quest_id])

\* C23: no failure ends the startup sequence or the job early: the process
\* keeps listening, a job that has ended has taken every record of its
\* selection, and a job that is at the INSERT of a record does end.
C23_JobRunsToCompletion ==
  /\ [](Listening /\ (sync.pc = "done" => sync.list = <<>>))
  /\ (sync.pc = "insert" ~> sync.pc = "done")

\* a run went on to a later record after the INSERT of a record had failed,
\* and has ended
C23_FailureIsolated ==
  /\ sync.pc = "done" /\ sync.runs = 1
  /\ ~sqlStrict
  /\ \E r \in UploadsOfPair("u1", 3) : r.uploaded_at = 3
  /\ ScoreRowsOf(scores, "u1", 3) = {}
  /\ ScoreRowsOf(scores, "u2", 4) # {}
  /\ first["u2"][4].by = "sync"

\* C30: when the first run of the job has ended, a pair of a photo-type
\* quest that had no row before it and has several uploads has exactly one
\* row, and the row's answered_at is the uploaded_at of the latest of them.
C30_OneRecordFromLatestUpload ==
  (sync.pc = "done" /\ sync.runs = 1) =>
    \A u \in Users, q \in QuestIds :
      (/\ IsPhotoQuest(Quests[q])
       /\ Cardinality(UploadsOfPair(u, q)) >= 2
       /\ first[u][q].by # "check")
      => /\ Cardinality(ScoreRowsOf(scores, u, q)) = 1
         /\ \A r \in UploadsOfPair(u, q) :
              r.uploaded_at <= ScoreRow(scores, u, q).answered_at

\* ------------------------------------------------------------- read paths
\* C24: a history request whose score query the store does not answer is
\* answered 503.
C24_StoreFailureIs503 ==
  (hq.status # 0 /\ hq.dbFails) => hq.status = 503

C27_SingleFallback ==
  rq.status # 0 =>
    LET inRegion == {q \in QuestIds :
                       /\ Quests[q].city = rq.city
                       /\ rq.town # Absent => Quests[q].town = rq.town
                       /\ rq.village # Absent => Quests[q].village = rq.village}
        photo == {q \in inRegion : Quests[q].option_a = PHOTO_MISSION}
        drawn == IF rq.drawn = "photo" THEN photo ELSE inRegion \ photo
    IN /\ rq.queries <= 2
       /\ rq.queries = 2 => drawn = {}
       /\ (rq.status = 200 /\ photo # {} /\ inRegion \ photo # {})
            => /\ rq.queries = 1
               /\ rq.body.type = rq.drawn
               /\ rq.body.id \in drawn

\* photo was drawn in a village with two question-type quests and one
\* photo-type quest, and the photo-type quest was returned
C27_DrawnTypeOfMinority ==
  /\ rq.status = 200 /\ rq.drawn = "photo" /\ rq.queries = 1
  /\ rq.village = "Woljeong" /\ rq.body.type = "photo" /\ rq.body.id = 3

\* C29: a row with score 1 for a photo-type quest exists only for a pair
\* that has an UploadRecord.
C29_ScoredPhotoNeedsUpload ==
  \A i \in 1..Len(scores) :
    (scores[i].score = 1 /\ IsPhotoQuest(Quests[scores[i].quest_id]))
      => UploadsOfPair(scores[i].user_id, scores[i].quest_id) # {}

\* ---------------------------------------------------------------- uploads
\* C25: an upload that has no file or no user_id, that meets a process
\* without a configured bucket, or whose PutObject fails is answered with an
\* error and writes neither an UploadRecord nor a ScoreRecord; and every
\* record that is written is written by an upload whose object was stored.
C25_NoRecordWithoutStoredObject ==
  [][/\ \A s \in Slots :
          (/\ req[s].pc = "idle"
           /\ req'[s].kind = "upload"
           /\ \/ ~req'[s].file
              \/ req'[s].user_id = Absent
              \/ S3_BUCKET_NAME = ""
              \/ req'[s].put = "failed")
          => /\ req'[s].pc = "done"
             /\ req'[s].status \in {400, 500}
             /\ uploads' = uploads
             /\ scores' = scores
     /\ (uploads' # uploads \/ scores' # scores)
         => \E s \in Slots :
              /\ req[s].kind = "upload"
              /\ req[s].pc \in {"history", "score"}
              /\ req[s].put = "stored"
              /\ req[s].file
              /\ req[s].user_id # Absent
              /\ S3_BUCKET_NAME # ""]_vars

\* an upload whose PutObject failed is being answered 500, after an upload of
\* the same user whose object was stored; the ledger holds the one record
C25_PutFailedAfterStored ==
  \E s \in Slots :
    /\ req[s].kind = "upload" /\ req[s].pc = "done" /\ req[s].status = 500
    /\ req[s].put = "failed" /\ req[s].user_id = "u1" /\ req[s].id = 3
    /\ BagCardinality(uploads) = 1
    /\ UploadsOfPair("u1", 3) # {}

\* C28 as stated: the upload of a request without a quest_id, with a quest_id
\* that resolves to no quest or with that of a question-type quest, answered
\* with success, has added exactly one UploadRecord and no ScoreRecord.
C28_PlainUploadAddsOneRecord ==
  [][\A s \in Slots :
       (/\ req[s].kind = "upload" /\ req[s].pc # "done"
        /\ req'[s].pc = "done" /\ req'[s].status = 200
        /\ \/ req[s].id = NoQuest
           \/ req[s].id \notin QuestIds
           \/ Quests[req[s].id].option_a # PHOTO_MISSION)
       => /\ req[s].pc = "history"
          /\ uploads' = uploads (+) SetToBag({UploadRow(req[s], now')})
          /\ scores' = scores]_vars

\* C28 amended: such an upload has added at most one UploadRecord, its own
\* (none when the insert of the record failed), and no ScoreRecord.
C28_PlainUploadLeavesScores ==
  [][\A s \in Slots :
       (/\ req[s].kind = "upload" /\ req[s].pc # "done"
        /\ req'[s].pc = "done" /\ req'[s].status = 200
        /\ \/ req[s].id = NoQuest
           \/ req[s].id \notin QuestIds
           \/ Quests[req[s].id].option_a # PHOTO_MISSION)
       => /\ req[s].pc = "history"
          /\ \/ uploads' = uploads (+) SetToBag({UploadRow(req[s], now')})
             \/ uploads' = uploads
          /\ scores' = scores]_vars

\* the upload for a question-type quest is being answered with success: its
\* UploadRecord is there and the ScoreRecord ledger is empty
C28_QuestionUploadDone ==
  \E s \in Slots :
    /\ req[s].kind = "upload" /\ req[s].pc = "done" /\ req[s].status = 200
    /\ req[s].user_id = "u1" /\ req[s].id = 1
    /\ UploadsOfPair("u1", 1) # {}
    /\ scores = <<>>

====
